---- MODULE Spec2Model ----
(***************************************************************************)
(* Clip extraction: the POST handler of the clip route (validateBody, the  *)
(* format selection through ytdl-core, the ffmpeg run, the read-back and   *)
(* the clean-up of the temporary file).                                    *)
(*                                                                         *)
(* Numbers are JavaScript numbers as they arrive from JSON.parse: a finite *)
(* value, +Infinity or -Infinity (1e999 parses to Infinity; NaN has no     *)
(* JSON form).  Finite values are kept in thousandths of a second, so 0.01 *)
(* is 10.                                                                  *)
(***************************************************************************)
EXTENDS Integers, Sequences, FiniteSets, TLC

\* ------------------------------------------------------------------ bounds
\* Longest manifest the remote site serves.
MaxFormats == 3
\* Requests in flight together under SpecConc.
NumReqs == 2

\* Clips the page adds in one session.
MaxClips == 2

Requests == 1..NumReqs

\* ------------------------------------------------------- JavaScript numbers
Fin(n) == [k |-> "fin", v |-> n]
PosInf == [k |-> "inf", v |-> 0]
NegInf == [k |-> "ninf", v |-> 0]
NaN == [k |-> "nan", v |-> 0]
\* a property that is absent from the body (undefined)
Absent == [k |-> "absent", v |-> 0]
\* a value of another type than number (a string)
StrVal == [k |-> "string", v |-> 0]

\* typeof x === "number"
IsNumber(x) == x.k \in {"fin", "inf", "ninf", "nan"}

\* a <= b on numbers (false when either is NaN)
Leq(a, b) ==
    /\ a.k # "nan"
    /\ b.k # "nan"
    /\ \/ a.k = "ninf"
       \/ b.k = "inf"
       \/ (a.k = "fin" /\ b.k = "fin" /\ a.v <= b.v)

\* a - b on numbers
Sub(a, b) ==
    IF a.k = "nan" \/ b.k = "nan" THEN NaN
    ELSE IF a.k = "fin" /\ b.k = "fin" THEN Fin(a.v - b.v)
    ELSE IF a.k = b.k THEN NaN
    ELSE IF a.k = "inf" \/ b.k = "ninf" THEN PosInf
    ELSE NegInf

\* Math.max(a, b)
MathMax(a, b) ==
    IF a.k = "nan" \/ b.k = "nan" THEN NaN
    ELSE IF Leq(a, b) THEN b ELSE a

\* 0.01 seconds, the floor of the duration
Epsilon == 10

\* ------------------------------------------------------------ request body
\* json: "object" a JSON object, "null" the JSON value null, "malformed" a
\* body req.json() cannot parse.  url: "absent", "" (empty), "number" (a
\* value that is not a string) or a locator.
Body(j, u, s, e) == [json |-> j, url |-> u, start |-> s, end |-> e]
NoBody == Body("none", "absent", Absent, Absent)

\* (start, end) pairs of numbers: a window shorter than 0.01 s, ordinary
\* windows, a negative start, an infinite end, and end <= start
Windows ==
    { <<Fin(0), Fin(5)>>, <<Fin(10000), Fin(15500)>>, <<Fin(0 - 1000), Fin(0)>>,
      <<Fin(0), PosInf>>,
      <<Fin(20000), Fin(20000)>>, <<Fin(15500), Fin(10000)>>, <<PosInf, PosInf>>,
      <<Fin(0), NegInf>> }
Bodies ==
    {Body("object", "https://youtu.be/a", w[1], w[2]) : w \in Windows}
    \cup {Body("object", "https://youtu.be/a", s, e) :
            s \in {Absent, StrVal, Fin(0)}, e \in {Absent, StrVal}}
    \cup {Body("object", u, Fin(0), Fin(15500)) : u \in {"absent", "", "number"}}
    \cup {Body("object", "", Fin(15500), Fin(0))}
    \cup {Body(j, "absent", Absent, Absent) : j \in {"null", "malformed"}}

\* the requests SpecConc sends
ConcBodies ==
    { Body("object", "https://youtu.be/a", Fin(0), Fin(15500)),
      Body("object", "https://youtu.be/a", Fin(10000), Fin(15500)),
      Body("object", "https://youtu.be/a", Fin(15500), Fin(10000)) }

\* validateBody: the message of the error it throws, "" when it returns
ValidateBodyLt(body) ==
    IF body.url \in {"absent", "", "number"} THEN "Missing url"
    ELSE IF ~IsNumber(body.start) \/ ~IsNumber(body.end) THEN "Missing start/end"
    ELSE IF Leq(body.end, body.start) /\ body.end # body.start
        THEN "end must be greater than start"
    ELSE ""

ValidateBody(body) ==
    IF body.url \in {"absent", "", "number"} THEN "Missing url"
    ELSE IF ~IsNumber(body.start) \/ ~IsNumber(body.end) THEN "Missing start/end"
    ELSE IF Leq(body.end, body.start) THEN "end must be greater than start"
    ELSE ""

\* req.json() followed by validateBody(body): the message thrown, or ""
ParseAndValidate(body) ==
    IF body.json = "malformed" THEN "Unexpected token in JSON"
    ELSE IF body.json = "null" THEN "Cannot read properties of null"
    ELSE ValidateBody(body)

\* Math.max(0.01, end - start)
DurationNoFloor(start, end) == Sub(end, start)

Duration(start, end) == MathMax(Fin(Epsilon), Sub(end, start))

\* ------------------------------------------------- ytdl-core: the manifest
\* One entry of info.formats.  url = "" is a format without a url.
Format(itag, container, hasVideo, hasAudio, isHLS, isDashMPD, isLive, url) ==
    [itag |-> itag, container |-> container, hasVideo |-> hasVideo,
     hasAudio |-> hasAudio, isHLS |-> isHLS, isDashMPD |-> isDashMPD,
     isLive |-> isLive, url |-> url]
\* undefined
NoFormat == Format(0, "none", FALSE, FALSE, FALSE, FALSE, FALSE, "")

FormatKinds ==
    { Format(22, "mp4", TRUE, TRUE, FALSE, FALSE, FALSE, "u22"),
      Format(18, "mp4", TRUE, TRUE, FALSE, FALSE, FALSE, "u18"),
      Format(37, "mp4", TRUE, TRUE, FALSE, FALSE, FALSE, ""),
      Format(43, "webm", TRUE, TRUE, FALSE, FALSE, FALSE, "u43"),
      Format(137, "mp4", TRUE, FALSE, FALSE, FALSE, FALSE, "u137"),
      Format(140, "mp4", FALSE, TRUE, FALSE, FALSE, FALSE, "u140"),
      Format(96, "mp4", TRUE, TRUE, TRUE, FALSE, FALSE, "u96"),
      Format(299, "mp4", TRUE, TRUE, FALSE, TRUE, FALSE, "u299"),
      Format(59, "mp4", TRUE, TRUE, FALSE, FALSE, TRUE, "u59") }

\* info.formats as ytdl.getInfo returns it: sorted, the best quality first,
\* every itag at most once
RECURSIVE SeqsUpTo(_)
SeqsUpTo(n) ==
    IF n = 0 THEN {<<>>}
    ELSE LET shorter == SeqsUpTo(n - 1)
         IN shorter \cup
            { Append(m, f) : m \in {x \in shorter : Len(x) = n - 1},
                             f \in FormatKinds }
Manifests ==
    { m \in SeqsUpTo(MaxFormats) :
        \A i, j \in 1..Len(m) : i # j => m[i].itag # m[j].itag }

\* the manifests SpecConc serves
ConcManifests ==
    { <<Format(22, "mp4", TRUE, TRUE, FALSE, FALSE, FALSE, "u22")>> }

\* the handler's filter: f.container === "mp4" && !!f.hasVideo &&
\* !!f.hasAudio && !!f.isHLS === false && !!f.isDashMPD === false
HandlerFilter(f) ==
    f.container = "mp4" /\ f.hasVideo /\ f.hasAudio
    /\ f.isHLS = FALSE /\ f.isDashMPD = FALSE

\* options.filter applied to one format: "none" no filter, "handler" the
\* handler's function, "audioandvideo" ytdl's named filter
FilterFn(filter, f) ==
    CASE filter = "handler" -> HandlerFilter(f)
      [] filter = "audioandvideo" -> f.hasVideo /\ f.hasAudio
      [] OTHER -> TRUE

\* ytdl filterFormats: formats.filter(f => !!f.url && fn(f))
FilterFormats(formats, filter) ==
    SelectSeq(formats, LAMBDA f : f.url # "" /\ FilterFn(filter, f))

\* ytdl getFormatByQuality: formats.find(f => `${f.itag}` === `${quality}`)
RECURSIVE GetFormatByQuality(_, _)
GetFormatByQuality(quality, formats) ==
    IF formats = <<>> THEN NoFormat
    ELSE IF ToString(Head(formats).itag) = quality THEN Head(formats)
    ELSE GetFormatByQuality(quality, Tail(formats))

\* the result of a call that returns or throws
Returned(f) == [threw |-> FALSE, val |-> f, msg |-> ""]
Threw(m) == [threw |-> TRUE, val |-> NoFormat, msg |-> m]

\* ytdl chooseFormat(formats, {filter, quality}); quality is "highest" or
\* an itag
ChooseFormat(formats, filter, quality) ==
    LET filtered == IF filter = "none" THEN formats
                    ELSE FilterFormats(formats, filter)
        kept == IF \E i \in 1..Len(filtered) : filtered[i].isHLS
                THEN SelectSeq(filtered, LAMBDA f : f.isHLS \/ ~f.isLive)
                ELSE filtered
        format == IF quality = "highest"
                  THEN (IF kept = <<>> THEN NoFormat ELSE kept[1])
                  ELSE GetFormatByQuality(quality, kept)
    IN IF format = NoFormat
       THEN Threw("No such format found: " \o quality)
       ELSE Returned(format)

\* the handler's selection:
\*   chooseFormat(formats, {filter, quality: "highest"})
\*     || chooseFormat(formats, {quality: "highest"})
SelectFormatLenient(formats) ==
    LET first == ChooseFormat(formats, "handler", "highest")
        second == ChooseFormat(formats, "none", "highest")
    IN IF ~first.threw THEN first
       ELSE IF ~second.threw THEN second
       ELSE Returned(NoFormat)

SelectFormat(formats) ==
    LET first == ChooseFormat(formats, "handler", "highest")
    IN IF first.threw THEN first
       ELSE IF first.val # NoFormat THEN first
       ELSE ChooseFormat(formats, "none", "highest")

\* ytdl.downloadFromInfo(info, {quality: format.itag, filter:
\* "audioandvideo"}): the format whose stream it opens, or the error the
\* stream emits
DownloadFromInfo(formats, format) ==
    IF formats = <<>> THEN Threw("This video is unavailable")
    ELSE ChooseFormat(formats, "audioandvideo", ToString(format.itag))

\* --------------------------------------------------------------- the state
VARIABLES
    site,        \* info.formats the remote site serves for the url
    body,        \* body[r]: the JSON body of request r
    pc,          \* pc[r]: where the handler of request r stands
    issued,      \* the ids randomUUID has handed out
    outFile,     \* outFile[r]: the temporary path of request r
    selected,    \* selected[r]: the format the handler selected
    opened,      \* opened[r]: the outcome of downloadFromInfo's own choice
    ffArgs,      \* ffArgs[r]: the -ss and -t values given to ffmpeg
    calls,       \* calls[r]: how often each collaborator was invoked
    unlinkState, \* unlinkState[r]: the fs.unlink promise of request r
    resp,        \* resp[r]: the Response the handler returned
    fs,          \* the paths at which a file exists
    fsLog,       \* every file operation: who did what to which path
    ffPromise,   \* ffPromise[r]: the promise around the ffmpeg run
    ffDiag,      \* ffDiag[r]: the message of the error ffmpeg emitted first
    ffLate,      \* ffLate[r]: an event fired after the promise was settled
    headers,     \* headers[r]: the headers of the Response
    \* the page (Home)
    inputUrl,    \* the text of the URL field
    videoId,     \* the video loaded in the player
    playerReady, \* the player has fired onReady
    draftStart,  \* the marked start, or null
    draftEnd,    \* the marked end, or null
    clips,       \* the clip list
    clipIds,     \* how many clip ids have been handed out
    flight,      \* flight[r]: the downloadClip call that sent request r
    marked       \* marked[id]: the video loaded when clip id was added

hvars == <<site, body, pc, issued, outFile, selected, opened, ffArgs, calls,
           unlinkState, resp, fs, fsLog, ffPromise, ffDiag, ffLate, headers>>
pvars == <<inputUrl, videoId, playerReady, draftStart, draftEnd, clips,
           clipIds, flight, marked>>
vars == <<hvars, pvars>>

NoPath == <<>>
NoArgs == [ss |-> Absent, t |-> Absent]
NoResp == [status |-> 0, msg |-> ""]
NoCalls == [getInfo |-> 0, stream |-> 0, ffmpeg |-> 0, read |-> 0, unlink |-> 0]
UUIDs == 1..NumReqs

\* randomUUID(): a token no earlier call returned
RandomUUID(gone) == UUIDs \ gone

\* path.join("/tmp", `clip_${id}.mp4`)
OutFileNoId(id) == <<"/tmp", "clip_", ".mp4">>

OutFile(id) == <<"/tmp", "clip_", ToString(id), ".mp4">>

FsOp(r, op, path) == [req |-> r, op |-> op, path |-> path]

\* Math.floor(x) of a time, in whole seconds
MathFloorRound(x) ==
    IF x.k = "fin" THEN Fin((x.v + 500) \div 1000) ELSE x

MathFloor(x) ==
    IF x.k = "fin" THEN Fin(x.v \div 1000) ELSE x

\* `clip_${Math.floor(start)}-${Math.floor(end)}.mp4`
ClipName(start, end) ==
    <<"clip_", MathFloor(start), "-", MathFloor(end), ".mp4">>
NoName == <<>>

\* the headers of new Response(data, {status: 200, headers}) and of
\* new Response(message, {status})
SuccessHeaders(b) ==
    [contentType |-> "video/mp4",
     disposition |-> <<"attachment; filename=", ClipName(b.start, b.end)>>,
     cacheControl |-> "no-store"]
TextHeaders ==
    [contentType |-> "text/plain;charset=UTF-8", disposition |-> NoName,
     cacheControl |-> ""]
NoHeaders == [contentType |-> "", disposition |-> NoName, cacheControl |-> ""]

\* the catch: err?.message || String(err)
CatchMessageGeneric(err) == "Internal Server Error"

CatchMessage(err) == IF err = "" THEN "Error" ELSE err

\* resolve() or reject(err) on the promise: only a pending promise settles
SettleOverwrite(state, outcome) == outcome

Settle(state, outcome) == IF state = "pending" THEN outcome ELSE state

\* ------------------------------------------------------------- the page
\* null
Null == [k |-> "null", v |-> 0]
\* a clip of the list; url is the blob url, <<>> when there is none
Clip(id, start, end, status, url, error) ==
    [id |-> id, start |-> start, end |-> end, status |-> status, url |-> url,
     error |-> error]
NoClip == Clip(0, Null, Null, "none", <<>>, "")
NoFlight == [clip |-> NoClip, state |-> "none"]

\* downloadClip: a.download =
\* `clip_${Math.floor(clip.start)}-${Math.floor(clip.end)}.mp4`
DownloadName(clip) ==
    <<"clip_", MathFloor(clip.start), "-", MathFloor(clip.end), ".mp4">>

\* the page before any interaction
InitPage ==
    /\ inputUrl = ""
    /\ videoId = ""
    /\ playerReady = FALSE
    /\ draftStart = Null
    /\ draftEnd = Null
    /\ clips = <<>>
    /\ clipIds = 0
    /\ flight = [r \in Requests |-> NoFlight]
    /\ marked = <<>>

InitCommon ==
    /\ issued = {}
    /\ outFile = [r \in Requests |-> NoPath]
    /\ selected = [r \in Requests |-> NoFormat]
    /\ opened = [r \in Requests |-> Returned(NoFormat)]
    /\ ffArgs = [r \in Requests |-> NoArgs]
    /\ calls = [r \in Requests |-> NoCalls]
    /\ unlinkState = [r \in Requests |-> "none"]
    /\ resp = [r \in Requests |-> NoResp]
    /\ fs = {}
    /\ fsLog = {}
    /\ ffPromise = [r \in Requests |-> "none"]
    /\ ffDiag = [r \in Requests |-> ""]
    /\ ffLate = [r \in Requests |-> FALSE]
    /\ headers = [r \in Requests |-> NoHeaders]

\* one request, any body, any manifest
Init ==
    /\ site \in Manifests
    /\ \E b \in Bodies : body = [r \in Requests |-> IF r = 1 THEN b ELSE NoBody]
    /\ pc = [r \in Requests |-> IF r = 1 THEN "pending" ELSE "absent"]
    /\ InitCommon
    /\ InitPage

\* NumReqs requests in flight together
InitConc ==
    /\ site \in ConcManifests
    /\ body \in [Requests -> ConcBodies]
    /\ pc = [r \in Requests |-> "pending"]
    /\ InitCommon
    /\ InitPage

\* return new Response(msg, {status}): the handler is over
Respond(r, status, msg) ==
    /\ resp' = [resp EXCEPT ![r] = [status |-> status, msg |-> msg]]
    /\ headers' = [headers EXCEPT ![r] =
          IF status = 200 THEN SuccessHeaders(body[r]) ELSE TextHeaders]
    /\ pc' = [pc EXCEPT ![r] = "done"]

\* POST, lines 33-49: req.json(), validateBody, duration, id, outFile and
\* the call of ytdl.getInfo; a throw lands in the catch (status 500)
Validate(r) ==
    /\ pc[r] = "pending"
    /\ LET err == ParseAndValidate(body[r])
       IN IF err # ""
          THEN /\ Respond(r, 500, CatchMessage(err))
               /\ UNCHANGED <<issued, outFile, calls>>
          ELSE /\ \E id \in RandomUUID(issued) :
                     /\ issued' = issued \cup {id}
                     /\ outFile' = [outFile EXCEPT ![r] = OutFile(id)]
               /\ calls' = [calls EXCEPT ![r].getInfo = @ + 1]
               /\ pc' = [pc EXCEPT ![r] = "getInfo"]
               /\ UNCHANGED <<resp, headers>>
    /\ UNCHANGED <<site, body, selected, opened, ffArgs, unlinkState, fs, fsLog,
                   ffPromise, ffDiag, ffLate, pvars>>

\* ytdl.getInfo rejects (network, unknown video): the catch answers 500
GetInfoFail(r) ==
    /\ pc[r] = "getInfo"
    /\ Respond(r, 500, CatchMessage("getInfo failed"))
    /\ UNCHANGED <<site, body, issued, outFile, selected, opened, ffArgs, calls,
                   unlinkState, fs, fsLog, ffPromise, ffDiag, ffLate, pvars>>

\* POST, lines 49-99: getInfo resolves; the format is selected, the stream
\* opened and ffmpeg started with .save(outFile)
GetInfoOk(r) ==
    /\ pc[r] = "getInfo"
    /\ LET choice == SelectFormat(site)
           format == choice.val
       IN IF choice.threw
          THEN /\ Respond(r, 500, CatchMessage(choice.msg))
               /\ UNCHANGED <<selected, opened, ffArgs, calls, ffPromise>>
          ELSE IF format = NoFormat \/ format.url = ""
          THEN /\ Respond(r, 400, "Failed to get a downloadable format")
               /\ selected' = [selected EXCEPT ![r] = format]
               /\ UNCHANGED <<opened, ffArgs, calls, ffPromise>>
          ELSE /\ selected' = [selected EXCEPT ![r] = format]
               /\ opened' = [opened EXCEPT ![r] = DownloadFromInfo(site, format)]
               /\ ffArgs' = [ffArgs EXCEPT ![r] =
                     [ss |-> body[r].start,
                      t |-> Duration(body[r].start, body[r].end)]]
               /\ calls' = [calls EXCEPT ![r].stream = @ + 1, ![r].ffmpeg = @ + 1]
               /\ ffPromise' = [ffPromise EXCEPT ![r] = "pending"]
               /\ pc' = [pc EXCEPT ![r] = "ffmpeg"]
               /\ UNCHANGED <<resp, headers>>
    /\ UNCHANGED <<site, body, issued, outFile, unlinkState, fs, fsLog, ffDiag,
                   ffLate, pvars>>

\* ffmpeg creates its output file and writes to it
FfmpegWrite(r) ==
    /\ pc[r] = "ffmpeg"
    /\ ~opened[r].threw
    /\ outFile[r] \notin fs
    /\ fs' = fs \cup {outFile[r]}
    /\ fsLog' = fsLog \cup {FsOp(r, "write", outFile[r])}
    /\ UNCHANGED <<site, body, pc, issued, outFile, selected, opened, ffArgs,
                   calls, unlinkState, resp, ffPromise, ffDiag, ffLate, headers,
                   pvars>>

\* the "end" event: resolve(); the handler goes on to fs.readFile(outFile)
FfmpegEnd(r) ==
    /\ pc[r] = "ffmpeg"
    /\ ~opened[r].threw
    /\ outFile[r] \in fs
    /\ ffPromise' = [ffPromise EXCEPT ![r] = Settle(@, "resolved")]
    /\ calls' = [calls EXCEPT ![r].read = @ + 1]
    /\ pc' = [pc EXCEPT ![r] = "readFile"]
    /\ UNCHANGED <<site, body, issued, outFile, selected, opened, ffArgs,
                   unlinkState, resp, fs, fsLog, ffDiag, ffLate, headers, pvars>>

\* the "error" event (ffmpeg exits non-zero, or the input stream errors):
\* reject(err); the catch answers 500 with the message
FfmpegErrorResolves(r) ==
    /\ pc[r] = "ffmpeg"
    /\ ffDiag' = [ffDiag EXCEPT ![r] = "ffmpeg exited with code 1"]
    /\ ffPromise' = [ffPromise EXCEPT ![r] = Settle(@, "resolved")]
    /\ calls' = [calls EXCEPT ![r].read = @ + 1]
    /\ pc' = [pc EXCEPT ![r] = "readFile"]
    /\ UNCHANGED <<site, body, issued, outFile, selected, opened, ffArgs,
                   unlinkState, resp, fs, fsLog, ffLate, headers, pvars>>

FfmpegError(r) ==
    /\ pc[r] = "ffmpeg"
    /\ \E msg \in (IF opened[r].threw
                   THEN {"Input stream error: " \o opened[r].msg}
                   ELSE {"ffmpeg exited with code 1", "Input stream error: aborted"}) :
          /\ ffDiag' = [ffDiag EXCEPT ![r] = msg]
          /\ Respond(r, 500, CatchMessage(msg))
    /\ ffPromise' = [ffPromise EXCEPT ![r] = Settle(@, "rejected")]
    /\ UNCHANGED <<site, body, issued, outFile, selected, opened, ffArgs, calls,
                   unlinkState, fs, fsLog, ffLate, pvars>>

\* POST, lines 101-112: readFile resolves; fs.unlink(outFile) is called and
\* not awaited; the 200 response is returned
ReadFileOkNoUnlink(r) ==
    /\ pc[r] = "readFile"
    /\ outFile[r] \in fs
    /\ fsLog' = fsLog \cup {FsOp(r, "read", outFile[r])}
    /\ Respond(r, 200, "")
    /\ UNCHANGED <<site, body, issued, outFile, selected, opened, ffArgs, fs,
                   calls, unlinkState, ffPromise, ffDiag, ffLate, pvars>>

ReadFileOk(r) ==
    /\ pc[r] = "readFile"
    /\ outFile[r] \in fs
    /\ fsLog' = fsLog \cup {FsOp(r, "read", outFile[r])}
    /\ calls' = [calls EXCEPT ![r].unlink = @ + 1]
    /\ unlinkState' = [unlinkState EXCEPT ![r] = "pending"]
    /\ Respond(r, 200, "")
    /\ UNCHANGED <<site, body, issued, outFile, selected, opened, ffArgs, fs,
                   ffPromise, ffDiag, ffLate, pvars>>

\* readFile rejects: the catch answers 500
ReadFileFail(r) ==
    /\ pc[r] = "readFile"
    /\ Respond(r, 500, CatchMessage("readFile failed"))
    /\ UNCHANGED <<site, body, issued, outFile, selected, opened, ffArgs, calls,
                   unlinkState, fs, fsLog, ffPromise, ffDiag, ffLate, pvars>>

\* the pending fs.unlink removes the file
UnlinkOk(r) ==
    /\ unlinkState[r] = "pending"
    /\ outFile[r] \in fs
    /\ fs' = fs \ {outFile[r]}
    /\ fsLog' = fsLog \cup {FsOp(r, "unlink", outFile[r])}
    /\ unlinkState' = [unlinkState EXCEPT ![r] = "ok"]
    /\ UNCHANGED <<site, body, pc, issued, outFile, selected, opened, ffArgs,
                   calls, resp, ffPromise, ffDiag, ffLate, headers, pvars>>

\* the pending fs.unlink fails; .catch(() => {}) swallows the error
UnlinkFail(r) ==
    /\ unlinkState[r] = "pending"
    /\ unlinkState' = [unlinkState EXCEPT ![r] = "failed"]
    /\ UNCHANGED <<site, body, pc, issued, outFile, selected, opened, ffArgs,
                   calls, resp, fs, fsLog, ffPromise, ffDiag, ffLate, headers,
                   pvars>>

\* ffmpeg emits "end" or "error" once more after the promise was settled:
\* the handlers of lines 92-97 call resolve() or reject() again
FfmpegLateEvent(r) ==
    /\ ffPromise[r] \in {"resolved", "rejected"}
    /\ ~ffLate[r]
    /\ ffLate' = [ffLate EXCEPT ![r] = TRUE]
    /\ \E outcome \in {"resolved", "rejected"} :
          ffPromise' = [ffPromise EXCEPT ![r] = Settle(@, outcome)]
    /\ UNCHANGED <<site, body, pc, issued, outFile, selected, opened, ffArgs,
                   calls, unlinkState, resp, fs, fsLog, ffDiag, headers, pvars>>

Next ==
    \E r \in Requests :
        \/ Validate(r)
        \/ GetInfoFail(r)
        \/ GetInfoOk(r)
        \/ FfmpegWrite(r)
        \/ FfmpegEnd(r)
        \/ FfmpegError(r)
        \/ ReadFileOk(r)
        \/ ReadFileFail(r)
        \/ UnlinkOk(r)
        \/ UnlinkFail(r)
        \/ FfmpegLateEvent(r)

Spec == Init /\ [][Next]_vars

SpecConc == InitConc /\ [][Next]_vars

\* ------------------------------------------------------ the page's actions
\* what the URL field can hold
InputTexts == {"", "https://youtu.be/A", " https://youtu.be/B "}

\* String.prototype.trim on those texts
Trim(t) == IF t = " https://youtu.be/B " THEN "https://youtu.be/B" ELSE t

\* extractYouTubeId on those texts: the id, "" for null. new URL(input)
\* strips leading and trailing blanks itself, so the untrimmed text parses
\* to host youtu.be and path "/B" as the trimmed one does; "" does not
\* parse and is not an 11-character id.
ExtractYouTubeId(input) ==
    CASE input = "https://youtu.be/A" -> "A"
      [] input \in {"https://youtu.be/B", " https://youtu.be/B "} -> "B"
      [] OTHER -> ""

\* what playerRef.current.getCurrentTime() may return: not a number, a
\* negative time, a time within the video, and the infinities
PlayerTimes == {NaN, Fin(0 - 1000), Fin(15500), PosInf, NegInf}

\* getCurrentTime: Math.max(0, Number(t) || 0)
GetCurrentTime(raw) ==
    MathMax(Fin(0), IF raw.k = "nan" \/ raw = Fin(0) THEN Fin(0) ELSE raw)

\* JSON.stringify of a number, read back by req.json(): a finite number
\* is itself, anything else becomes null
JsonNumber(x) == IF x.k = "fin" THEN x ELSE StrVal

\* the body downloadClip sends
RequestBody(text, clip) ==
    Body("object", Trim(text), JsonNumber(clip.start), JsonNumber(clip.end))

\* prev.map(c => c.id === id ? {...c, status: "downloading",
\* error: undefined} : c)
MarkDownloading(cs, id) ==
    [i \in DOMAIN cs |->
        IF cs[i].id = id
        THEN [cs[i] EXCEPT !.status = "downloading", !.error = ""]
        ELSE cs[i]]

\* prev.map(c => c.id === id ? {...c, status: "done", url} : c)
MarkDoneAll(cs, id, url) ==
    [i \in DOMAIN cs |-> [cs[i] EXCEPT !.status = "done", !.url = url]]

MarkDone(cs, id, url) ==
    [i \in DOMAIN cs |->
        IF cs[i].id = id
        THEN [cs[i] EXCEPT !.status = "done", !.url = url]
        ELSE cs[i]]

\* prev.map(c => c.id === id ? {...c, status: "error", error} : c)
MarkError(cs, id, error) ==
    [i \in DOMAIN cs |->
        IF cs[i].id = id
        THEN [cs[i] EXCEPT !.status = "error", !.error = error]
        ELSE cs[i]]

\* the requests sent so far
Sent == {r \in Requests : flight[r].state # "none"}

\* onChange of the URL field
SetInputUrl ==
    /\ \E t \in InputTexts : inputUrl' = t
    /\ UNCHANGED <<videoId, playerReady, draftStart, draftEnd, clips, clipIds,
                   flight, marked, hvars>>

\* loadVideo; a new videoId tears the player down and builds a new one
LoadVideo ==
    /\ LET id == ExtractYouTubeId(Trim(inputUrl))
       IN IF id = "" \/ id = videoId
          THEN UNCHANGED <<videoId, playerReady>>
          ELSE /\ videoId' = id
               /\ playerReady' = FALSE
    /\ UNCHANGED <<inputUrl, draftStart, draftEnd, clips, clipIds, flight,
                   marked, hvars>>

\* the player's onReady
PlayerReady ==
    /\ videoId # ""
    /\ ~playerReady
    /\ playerReady' = TRUE
    /\ UNCHANGED <<inputUrl, videoId, draftStart, draftEnd, clips, clipIds,
                   flight, marked, hvars>>

\* Mark Start
MarkStart ==
    /\ videoId # ""
    /\ playerReady
    /\ \E raw \in PlayerTimes : draftStart' = GetCurrentTime(raw)
    /\ UNCHANGED <<inputUrl, videoId, playerReady, draftEnd, clips, clipIds,
                   flight, marked, hvars>>

\* Mark End
MarkEnd ==
    /\ videoId # ""
    /\ playerReady
    /\ \E raw \in PlayerTimes : draftEnd' = GetCurrentTime(raw)
    /\ UNCHANGED <<inputUrl, videoId, playerReady, draftStart, clips, clipIds,
                   flight, marked, hvars>>

\* addClip
AddClip ==
    /\ videoId # ""
    /\ draftStart # Null /\ draftEnd # Null
    /\ clipIds < MaxClips
    /\ IF Leq(draftEnd, draftStart)
       THEN UNCHANGED <<clips, clipIds, marked>>
       ELSE /\ clipIds' = clipIds + 1
            /\ clips' = Append(clips,
                  Clip(clipIds + 1, draftStart, draftEnd, "idle", <<>>, ""))
            /\ marked' = Append(marked, videoId)
    /\ UNCHANGED <<inputUrl, videoId, playerReady, draftStart, draftEnd, flight,
                   hvars>>

\* removeClip
RemoveClip(i) ==
    /\ clips' = SelectSeq(clips, LAMBDA c : c.id # clips[i].id)
    /\ UNCHANGED <<inputUrl, videoId, playerReady, draftStart, draftEnd, clipIds,
                   flight, marked, hvars>>

\* downloadClip up to the fetch: request r is the next one sent
DownloadClip(i) ==
    /\ clips[i].status # "downloading"
    /\ IF inputUrl = ""
       THEN UNCHANGED <<clips, flight, body, pc>>
       ELSE LET r == Cardinality(Sent) + 1
            IN /\ r \in Requests
               /\ clips' = MarkDownloading(clips, clips[i].id)
               /\ flight' = [flight EXCEPT ![r] =
                     [clip |-> clips[i], state |-> "waiting"]]
               /\ body' = [body EXCEPT ![r] = RequestBody(inputUrl, clips[i])]
               /\ pc' = [pc EXCEPT ![r] = "pending"]
    /\ UNCHANGED <<inputUrl, videoId, playerReady, draftStart, draftEnd, clipIds,
                   marked, site, issued, outFile, selected, opened, ffArgs,
                   calls, unlinkState, resp, fs, fsLog, ffPromise, ffDiag,
                   ffLate, headers>>

\* downloadClip after the fetch resolved: the blob of an ok response, or
\* the throw of new Error(text || `Request failed with ${res.status}`)
FetchResolvedRetry(r) ==
    /\ flight[r].state = "waiting"
    /\ pc[r] = "done"
    /\ LET again == Cardinality(Sent) + 1
       IN IF resp[r].status # 200 /\ again \in Requests
          THEN /\ flight' = [flight EXCEPT ![r].state = "handled",
                                           ![again] = [flight[r] EXCEPT !.state = "waiting"]]
               /\ body' = [body EXCEPT ![again] = body[r]]
               /\ pc' = [pc EXCEPT ![again] = "pending"]
               /\ UNCHANGED clips
          ELSE /\ flight' = [flight EXCEPT ![r].state = "handled"]
               /\ clips' = MarkDone(clips, flight[r].clip.id, <<"blob:", r>>)
               /\ UNCHANGED <<body, pc>>
    /\ UNCHANGED <<inputUrl, videoId, playerReady, draftStart, draftEnd, clipIds,
                   marked, site, issued, outFile, selected, opened, ffArgs,
                   calls, unlinkState, resp, fs, fsLog, ffPromise, ffDiag,
                   ffLate, headers>>

FetchResolved(r) ==
    /\ flight[r].state = "waiting"
    /\ pc[r] = "done"
    /\ flight' = [flight EXCEPT ![r].state = "handled"]
    /\ clips' =
          IF resp[r].status = 200
          THEN MarkDone(clips, flight[r].clip.id, <<"blob:", r>>)
          ELSE MarkError(clips, flight[r].clip.id,
                         IF resp[r].msg # "" THEN resp[r].msg
                         ELSE "Request failed with " \o ToString(resp[r].status))
    /\ UNCHANGED <<inputUrl, videoId, playerReady, draftStart, draftEnd, clipIds,
                   marked, hvars>>

\* the fetch rejects (the network fails): the catch marks the error
FetchRejected(r) ==
    /\ flight[r].state = "waiting"
    /\ flight' = [flight EXCEPT ![r].state = "handled"]
    /\ clips' = MarkError(clips, flight[r].clip.id, "Failed to fetch")
    /\ UNCHANGED <<inputUrl, videoId, playerReady, draftStart, draftEnd, clipIds,
                   marked, hvars>>

\* the page from its first render up to the sending of requests
NextPage ==
    \/ SetInputUrl
    \/ LoadVideo
    \/ PlayerReady
    \/ MarkStart
    \/ MarkEnd
    \/ AddClip
    \/ \E i \in 1..Len(clips) : RemoveClip(i)
    \/ \E i \in 1..Len(clips) : DownloadClip(i)

InitPageSpec ==
    /\ site \in ConcManifests
    /\ body = [r \in Requests |-> NoBody]
    /\ pc = [r \in Requests |-> "absent"]
    /\ InitCommon
    /\ InitPage

SpecPage == InitPageSpec /\ [][NextPage]_vars

\* the page with a video loaded and a window marked, together with the
\* handler that answers the requests the page sends
NextE2E ==
    \/ AddClip
    \/ \E i \in 1..Len(clips) : RemoveClip(i)
    \/ \E i \in 1..Len(clips) : DownloadClip(i)
    \/ \E r \in Requests : FetchResolved(r)
    \/ \E r \in Requests : FetchRejected(r)
    \/ Next

InitE2E ==
    /\ site \in ConcManifests
    /\ body = [r \in Requests |-> NoBody]
    /\ pc = [r \in Requests |-> "absent"]
    /\ InitCommon
    /\ inputUrl = "https://youtu.be/A"
    /\ videoId = "A"
    /\ playerReady = TRUE
    /\ draftStart = Fin(0)
    /\ draftEnd = Fin(15500)
    /\ clips = <<>>
    /\ clipIds = 0
    /\ flight = [r \in Requests |-> NoFlight]
    /\ marked = <<>>

SpecE2E == InitE2E /\ [][NextE2E]_vars

\* one request; the resolver answers, ffmpeg emits an event and readFile
\* settles
LiveManifests ==
    { <<>>,
      <<Format(22, "mp4", TRUE, TRUE, FALSE, FALSE, FALSE, "u22")>>,
      <<Format(59, "mp4", TRUE, TRUE, FALSE, FALSE, TRUE, "u59"),
        Format(96, "mp4", TRUE, TRUE, TRUE, FALSE, FALSE, "u96")>> }
InitLive ==
    /\ Init
    /\ site \in LiveManifests
Fairness ==
    \A r \in Requests :
        /\ WF_vars(Validate(r))
        /\ WF_vars(GetInfoOk(r) \/ GetInfoFail(r))
        /\ WF_vars(FfmpegEnd(r) \/ FfmpegError(r))
        /\ WF_vars(ReadFileOk(r) \/ ReadFileFail(r))
SpecLive == InitLive /\ [][Next]_vars /\ Fairness

\* ------------------------------------------------------------ the claims
\* the request has a temporary path
HasPath(r) == outFile[r] # NoPath
\* the handler of r has returned
Done(r) == pc[r] = "done"
\* ytdl.getInfo has resolved for r and the selection has run
Resolved(r) ==
    /\ calls[r].getInfo = 1
    /\ pc[r] # "getInfo"
    /\ resp[r].msg # "getInfo failed"
\* start and end are numbers with end <= start
EndNotAfterStart(b) ==
    /\ b.json = "object"
    /\ IsNumber(b.start) /\ IsNumber(b.end)
    /\ \/ b.end = b.start
       \/ b.end.k = "ninf"
       \/ b.start.k = "inf"
       \/ (b.end.k = "fin" /\ b.start.k = "fin" /\ b.end.v < b.start.v)
\* the validation rules of the specification
RulesPass(b) ==
    /\ b.json = "object"
    /\ b.url \notin {"absent", "", "number"}
    /\ b.start.k = "fin" /\ b.end.k = "fin"
    /\ b.start.v >= 0
    /\ b.end.v > b.start.v
\* a progressive mp4 candidate: both tracks, neither HLS nor DASH
Progressive(f) ==
    /\ f.container = "mp4"
    /\ f.hasVideo /\ f.hasAudio
    /\ ~f.isHLS /\ ~f.isDashMPD
\* the positions of the manifest that hold a candidate of the given sort
ProgressiveAt(m) == {i \in 1..Len(m) : Progressive(m[i])}
UsableAt(m) == {i \in 1..Len(m) : Progressive(m[i]) /\ m[i].url # ""}
\* the best of a non-empty set of positions: the manifest is sorted
Best(m, at) == m[CHOOSE i \in at : \A j \in at : i <= j]

\* C1: every request that computed its temporary path has, once the handler
\* has returned, had the deletion of that path invoked exactly once.
C1_DeletedExactlyOnce ==
    \A r \in Requests : (Done(r) /\ HasPath(r)) => calls[r].unlink = 1

\* C2: a request whose end is not greater than its start never reaches the
\* resolver, the stream or the transcoder, gets no temporary path, and is
\* answered with a failure.
C2_RejectedBeforeRemote ==
    \A r \in Requests :
        EndNotAfterStart(body[r]) =>
            /\ calls[r] = NoCalls
            /\ ~HasPath(r)
            /\ ffArgs[r] = NoArgs
            /\ Done(r) => resp[r].status >= 400
C2_Witness ==
    \E r \in Requests :
        /\ EndNotAfterStart(body[r])
        /\ Done(r)
        /\ resp[r] = [status |-> 500, msg |-> "end must be greater than start"]

\* C3: a request gets past validation only if its url is a non-empty
\* string, start and end are finite, start is non-negative and end > start.
C3_PastValidationOnlyIfRulesPass ==
    \A r \in Requests : calls[r].getInfo > 0 => RulesPass(body[r])

\* C4: once a request has ended in a failure response, no file exists at
\* its artifact path.
C4_NoArtifactAfterFailure ==
    \A r \in Requests :
        (Done(r) /\ resp[r].status # 200) => outFile[r] \notin fs

\* C5 as stated: whenever the handler has returned 200, the file at the
\* artifact path no longer exists.
C5_ArtifactGoneAt200 ==
    \A r \in Requests : resp[r].status = 200 => outFile[r] \notin fs

\* C5 amended: whenever the handler has returned 200, the file has been
\* read once and its deletion invoked exactly once, after the read; the
\* deletion is not awaited, and the file is gone once it has succeeded.
C5_DeletionStartedAt200 ==
    \A r \in Requests :
        resp[r].status = 200 =>
            /\ calls[r].read = 1
            /\ FsOp(r, "read", outFile[r]) \in fsLog
            /\ calls[r].unlink = 1
            /\ unlinkState[r] \in {"pending", "ok", "failed"}
            /\ unlinkState[r] = "ok" => outFile[r] \notin fs
C5_Witness ==
    \E r \in Requests :
        /\ resp[r].status = 200
        /\ unlinkState[r] = "ok"
        /\ outFile[r] \notin fs

\* C6: requests in flight together have distinct artifact paths, and every
\* write, read and deletion a request performs is on its own path and on
\* the path of no other request.
C6_OwnPathOnly ==
    /\ \A r1, r2 \in Requests :
          (r1 # r2 /\ HasPath(r1) /\ HasPath(r2)) => outFile[r1] # outFile[r2]
    /\ \A op \in fsLog :
          /\ op.path = outFile[op.req]
          /\ \A r \in Requests \ {op.req} : op.path # outFile[r]
C6_Witness ==
    \E r1, r2 \in Requests :
        /\ r1 # r2
        /\ pc[r1] = "ffmpeg" /\ pc[r2] = "done"
        /\ FsOp(r1, "write", outFile[r1]) \in fsLog
        /\ FsOp(r2, "unlink", outFile[r2]) \in fsLog

\* C7: when the manifest has a progressive mp4 candidate, the
\* format selected, and the format whose stream is opened, is the best of
\* the progressive candidates.
C7_SelectsBestProgressive ==
    \A r \in Requests :
        (Resolved(r) /\ ProgressiveAt(site) # {}) =>
            /\ selected[r] = Best(site, ProgressiveAt(site))
            /\ opened[r] = Returned(selected[r])

\* C8: with a non-empty manifest that has no progressive mp4 candidate,
\* the best candidate overall is selected and the request goes on to the
\* stream and the transcoder.
C8_FallsBackToBestOverall ==
    \A r \in Requests :
        (Resolved(r) /\ site # <<>> /\ ProgressiveAt(site) = {}) =>
            /\ selected[r] = site[1]
            /\ calls[r].stream = 1
            /\ calls[r].ffmpeg = 1

\* C9 as stated: with an empty manifest, or one in which no candidate has
\* a url, the request fails, the transcoder is never started and no
\* artifact path was generated.
C9_NoPathWithoutFormat ==
    \A r \in Requests :
        (Resolved(r) /\ \A i \in 1..Len(site) : site[i].url = "") =>
            /\ Done(r)
            /\ resp[r].status >= 400
            /\ calls[r].ffmpeg = 0
            /\ ~HasPath(r)

\* C9 amended: with an empty manifest, or one in which no candidate has a
\* url, the request fails with status 500 and chooseFormat's message, the
\* stream and the transcoder are never started and no file is ever created
\* at the artifact path; the path itself was generated before the resolver
\* was called.
C9_NoFileWithoutFormat ==
    \A r \in Requests :
        (Resolved(r) /\ \A i \in 1..Len(site) : site[i].url = "") =>
            /\ Done(r)
            /\ resp[r] = [status |-> 500, msg |-> "No such format found: highest"]
            /\ calls[r].stream = 0
            /\ calls[r].ffmpeg = 0
            /\ HasPath(r)
            /\ outFile[r] \notin fs
            /\ \A op \in fsLog : op.req # r
C9_Witness ==
    \E r \in Requests :
        /\ Resolved(r)
        /\ Len(site) = 1
        /\ site[1].url = ""
        /\ Done(r)

\* C10: the -t value given to the transcoder is max(0.01, end - start),
\* the -ss value is start, and the -t value is positive.
C10_DurationFloor ==
    \A r \in Requests :
        calls[r].ffmpeg > 0 =>
            LET d == Sub(body[r].end, body[r].start)
            IN /\ ffArgs[r].ss = body[r].start
               /\ ffArgs[r].t = IF d.k = "fin" /\ d.v < Epsilon
                                THEN Fin(Epsilon) ELSE d
               /\ \/ ffArgs[r].t.k = "inf"
                  \/ (ffArgs[r].t.k = "fin" /\ ffArgs[r].t.v > 0)
C10_Witness ==
    \E r \in Requests :
        /\ calls[r].ffmpeg > 0
        /\ body[r].start = Fin(0) /\ body[r].end = Fin(5)
        /\ ffArgs[r] = [ss |-> Fin(0), t |-> Fin(10)]

\* C11: a failure response has status 500 and a plain-text message; 400 is
\* used, if at all, only for a validation failure before any remote work;
\* 200 is returned only after resolve, transcode and read-back succeeded;
\* a failure after the resolver was contacted is never answered with 400.
C11_StatusCodes ==
    \A r \in Requests :
        Done(r) =>
            /\ resp[r].status \in {200, 400, 500}
            /\ resp[r].status # 200 =>
                  /\ resp[r].msg # ""
                  /\ headers[r].contentType = "text/plain;charset=UTF-8"
            /\ resp[r].status = 400 =>
                  /\ calls[r] = NoCalls
                  /\ ParseAndValidate(body[r]) # ""
            /\ calls[r].getInfo > 0 => resp[r].status # 400
            /\ resp[r].status = 200 =>
                  /\ Resolved(r)
                  /\ ffPromise[r] = "resolved"
                  /\ FsOp(r, "read", outFile[r]) \in fsLog
C11_Witness ==
    \E r \in Requests :
        /\ Done(r)
        /\ Resolved(r)
        /\ site # <<>>
        /\ UsableAt(site) = {}
        /\ resp[r].status = 500

\* C12: when the transcoder signals an error the promise rejects, the file
\* is never read, and the handler answers with a failure whose body is the
\* message of that error, never with 200.
C12_TranscoderErrorSurfaced ==
    \A r \in Requests :
        ffPromise[r] = "rejected" =>
            /\ calls[r].read = 0
            /\ \A op \in fsLog : ~(op.req = r /\ op.op = "read")
            /\ Done(r)
            /\ resp[r].status = 500
            /\ ffDiag[r] # ""
            /\ resp[r].msg = ffDiag[r]
C12_Witness ==
    \E r \in Requests :
        /\ ffPromise[r] = "rejected"
        /\ ffDiag[r] = "ffmpeg exited with code 1"
        /\ outFile[r] \in fs
        /\ Done(r)

\* whole seconds of a time, by its defining property
FloorOf(x) ==
    IF x.k = "fin"
    THEN Fin(CHOOSE n \in (0 - 2)..21 : n * 1000 <= x.v /\ x.v < (n + 1) * 1000)
    ELSE x

\* C15: a successful response has status 200, Content-Type video/mp4,
\* Cache-Control no-store and the attachment filename
\* clip_<floor(start)>-<floor(end)>.mp4 of the request's own start and end,
\* the name the page gives the file of that clip.
C15_SuccessHeaders ==
    \A r \in Requests :
        resp[r].status = 200 =>
            LET name == <<"clip_", FloorOf(body[r].start), "-",
                          FloorOf(body[r].end), ".mp4">>
            IN /\ Done(r)
               /\ headers[r].contentType = "video/mp4"
               /\ headers[r].cacheControl = "no-store"
               /\ headers[r].disposition = <<"attachment; filename=", name>>
               /\ DownloadName(Clip(1, body[r].start, body[r].end, "done",
                                    <<"blob:", r>>, "")) = name
C15_Witness ==
    \E r \in Requests :
        /\ resp[r].status = 200
        /\ body[r].start = Fin(10000) /\ body[r].end = Fin(15500)
        /\ headers[r].disposition =
              <<"attachment; filename=", <<"clip_", Fin(10), "-", Fin(15), ".mp4">>>>

\* C16: the stages of a request run in order, each after the one before:
\* the resolver after validation, the stream and the transcoder after the
\* selection, the read after the transcoder's "end" and a write, the
\* deletion after the read; one transcoder run and one read at most; and
\* after a failure response nothing further is invoked or touched.
StageOrder ==
    \A r \in Requests :
        /\ calls[r].getInfo \in {0, 1}
        /\ calls[r].getInfo = 1 => ParseAndValidate(body[r]) = "" /\ HasPath(r)
        /\ calls[r].stream \in {0, 1} /\ calls[r].ffmpeg = calls[r].stream
        /\ calls[r].stream = 1 =>
              /\ Resolved(r)
              /\ selected[r] # NoFormat
              /\ ffArgs[r] # NoArgs
        /\ calls[r].read \in {0, 1}
        /\ calls[r].read = 1 =>
              /\ calls[r].ffmpeg = 1
              /\ ffPromise[r] = "resolved"
              /\ ffDiag[r] = ""
              /\ FsOp(r, "write", outFile[r]) \in fsLog
        /\ calls[r].unlink \in {0, 1}
        /\ calls[r].unlink = 1 <=> FsOp(r, "read", outFile[r]) \in fsLog
        /\ FsOp(r, "read", outFile[r]) \in fsLog => calls[r].read = 1
        /\ FsOp(r, "unlink", outFile[r]) \in fsLog => calls[r].unlink = 1
        /\ resp[r].status = 200 <=> calls[r].unlink = 1
NothingAfterFailure ==
    \A r \in Requests :
        (Done(r) /\ resp[r].status # 200) =>
            /\ calls'[r] = calls[r]
            /\ {op \in fsLog' : op.req = r} = {op \in fsLog : op.req = r}
            /\ resp'[r] = resp[r]
C16_StagesInOrder == [](StageOrder) /\ [][NothingAfterFailure]_vars
C16_Witness ==
    \E r \in Requests :
        /\ Done(r)
        /\ resp[r].status = 500
        /\ ffDiag[r] # ""
        /\ FsOp(r, "write", outFile[r]) \in fsLog
        /\ ffLate[r]

\* C17: every request gets exactly one response, which is never replaced;
\* when the resolver answers and the transcoder emits an event, the
\* handler returns; the promise is settled by the first event and a later
\* event leaves it as it is.
OneResponse ==
    \A r \in Requests :
        /\ Done(r) <=> resp[r] # NoResp
        /\ Done(r) => resp[r].status \in {200, 400, 500}
SettledForGood ==
    \A r \in Requests :
        /\ resp[r] # NoResp => (resp'[r] = resp[r] /\ pc'[r] = pc[r])
        /\ ffPromise[r] \in {"resolved", "rejected"} => ffPromise'[r] = ffPromise[r]
C17_AlwaysOneResponse ==
    /\ [](OneResponse)
    /\ [][SettledForGood]_vars
    /\ \A r \in Requests : (pc[r] = "pending") ~> Done(r)
C17_Witness ==
    \E r \in Requests :
        /\ Done(r)
        /\ ffLate[r]
        /\ ffPromise[r] = "rejected"
        /\ resp[r].status = 500

\* the ids of the clips listed, in order
ClipIdsOf(cs) == [i \in DOMAIN cs |-> cs[i].id]
IdSet(cs) == {cs[i].id : i \in DOMAIN cs}
StatusOf(cs, id) == (CHOOSE c \in {cs[i] : i \in DOMAIN cs} : c.id = id).status

\* C13: within a request the resolver, the stream and the transcoder are
\* each invoked at most once; the page sends one request in the step in
\* which a clip turns to downloading, none in any other step (none when it
\* handles a response), and a request once sent is never changed or sent
\* again.
NoRetry ==
    \A r \in Requests :
        /\ calls[r].getInfo <= 1
        /\ calls[r].stream <= 1
        /\ calls[r].ffmpeg <= 1
        /\ (r \notin Sent) => (pc[r] = "absent" /\ calls[r] = NoCalls)
OneRequestPerDownload ==
    /\ Sent \subseteq Sent'
    /\ \A r \in Sent : body'[r] = body[r] /\ flight'[r].clip = flight[r].clip
    /\ Sent' # Sent =>
          /\ Cardinality(Sent') = Cardinality(Sent) + 1
          /\ \A r \in Sent : flight'[r] = flight[r]
          /\ \E id \in IdSet(clips) :
                /\ StatusOf(clips, id) # "downloading"
                /\ id \in IdSet(clips')
                /\ StatusOf(clips', id) = "downloading"
                /\ \A r \in Sent' \ Sent : flight'[r].clip.id = id
    /\ \A id \in IdSet(clips) \cap IdSet(clips') :
          (StatusOf(clips, id) # "downloading" /\ StatusOf(clips', id) = "downloading")
              => Cardinality(Sent') = Cardinality(Sent) + 1
C13_NothingRetried == [](NoRetry) /\ [][OneRequestPerDownload]_vars
C13_Witness ==
    \E r \in Requests :
        /\ flight[r].state = "handled"
        /\ Done(r)
        /\ resp[r].status = 500
        /\ calls[r].ffmpeg = 1
        /\ Sent = {r}
        /\ \E i \in DOMAIN clips :
              clips[i].id = flight[r].clip.id /\ clips[i].status = "error"

\* C14: every request the page sends carries the start and end of its clip
\* as marked, and the url of the video that was loaded when the clip was
\* added.
C14_RequestCarriesMarkedClip ==
    \A r \in Sent :
        /\ body[r].start = flight[r].clip.start
        /\ body[r].end = flight[r].clip.end
        /\ ExtractYouTubeId(body[r].url) = marked[flight[r].clip.id]

\* C18: every clip of the list has a start >= 0 and an end greater than
\* its start, and every request sent carries a start and an end that are
\* numbers with end > start, as the handler's validation requires.
C18_ClipsAreWindows ==
    /\ \A i \in DOMAIN clips :
          /\ IsNumber(clips[i].start) /\ IsNumber(clips[i].end)
          /\ Leq(Fin(0), clips[i].start)
          /\ ~Leq(clips[i].end, clips[i].start)
    /\ \A r \in Sent :
          /\ IsNumber(body[r].start) /\ IsNumber(body[r].end)
          /\ ~Leq(body[r].end, body[r].start)

\* C19: a clip's status moves only idle -> downloading -> done or error,
\* and from done or error back to downloading; a clip that is downloading
\* has a request waiting, and the step that handles a response leaves its
\* clip, if listed, done with a blob url or in error with a message,
\* leaves every other clip as it was and brings no clip back.
StatusSound ==
    /\ \A i, j \in DOMAIN clips : i # j => clips[i].id # clips[j].id
    /\ \A i \in DOMAIN clips :
          /\ clips[i].id \in 1..clipIds
          /\ clips[i].status \in {"idle", "downloading", "done", "error"}
          /\ clips[i].status = "done" => clips[i].url # <<>>
          /\ clips[i].status = "error" => clips[i].error # ""
          /\ clips[i].status = "downloading" =>
                \E r \in Requests :
                    /\ flight[r].state = "waiting"
                    /\ flight[r].clip.id = clips[i].id
StatusMoves ==
    /\ \A id \in IdSet(clips) \cap IdSet(clips') :
          \/ StatusOf(clips', id) = StatusOf(clips, id)
          \/ <<StatusOf(clips, id), StatusOf(clips', id)>> \in
                { <<"idle", "downloading">>, <<"downloading", "done">>,
                  <<"downloading", "error">>, <<"done", "downloading">>,
                  <<"error", "downloading">> }
    /\ IdSet(clips') \ IdSet(clips) \subseteq {clipIds + 1}
    /\ \A r \in Requests :
          (flight[r].state = "waiting" /\ flight'[r].state = "handled") =>
              /\ ClipIdsOf(clips') = ClipIdsOf(clips)
              /\ \A i \in DOMAIN clips :
                    IF clips[i].id = flight[r].clip.id
                    THEN clips'[i].status \in {"done", "error"}
                    ELSE clips'[i] = clips[i]
C19_StatusLifecycle == [](StatusSound) /\ [][StatusMoves]_vars
C19_Witness ==
    \E r \in Requests :
        /\ flight[r].state = "handled"
        /\ resp[r].status = 200
        /\ flight[r].clip.id \notin IdSet(clips)
        /\ \E i \in DOMAIN clips : clips[i].status = "downloading"

====
